---- MODULE Spec2Model ----
(***************************************************************************)
(* GitTranslate: the text-to-speech fan-out / merge / upload pipeline of   *)
(* scripts/text2speech.py and backend/app/services/orkes.py.               *)
(*                                                                         *)
(* Utterance positions are zero-based, as in the Python source: task i is  *)
(* the coroutine fetch_tts(session, conversation[i], get_voice(i)).        *)
(* TLA+ sequences are one-based, so utterance i is conversation[i + 1].    *)
(***************************************************************************)
EXTENDS Integers, Sequences, FiniteSets, TLC

\* ------------------------------------------------------------------ bounds
MaxLen == 3
MaxInvocations == 2
MaxIndex == 63
MaxRequests == 2

\* The inputs: the code never inspects an utterance's text, so one conversation
\* of pairwise distinct texts per length stands for all of that length.
Text(k) == <<"utterance", k>>
Conversations == {[k \in 1..n |-> Text(k)] : n \in 0..MaxLen}

\* ------------------------------------------------------- program constants
AWS_S3_BUCKET == "github-podcasts"
LMNT_API_URL == "https://api.lmnt.com/v1/ai/speech/bytes"

VARIABLES
    entry,          \* entry point of the current invocation
    conversation,   \* its argument
    pc,             \* position of the invocation's thread of control
    task,           \* task[i]: state of the i-th coroutine handed to gather
    result,         \* result[i]: what task i finished with
    order,          \* indices of the finished tasks, in completion order
    requests,       \* synthesis requests posted in this invocation
    e,              \* the exception being propagated / caught
    audio_results,  \* value of asyncio.run(process_conversation(...))
    merged,         \* merge_and_upload's accumulator
    buffer,         \* the exported track
    final_url,      \* text2speech's local final_url
    s3,             \* every upload_fileobj call made so far, in order
    issued,         \* the keys uuid4 has produced so far
    outcome,        \* what the entry point gave its caller
    invocations,    \* number of entry-point calls so far
    voiceCalls,     \* the last two get_voice calls (voice specification)
    translator,     \* the current ScriptTranslator.process_translation call
    gateway,        \* the current call into the FastAPI gateway or its Orkes wrapper
    conductor,      \* the workflows Orkes Conductor holds, and their status
    podcast,        \* the current PodcastGenerator.generate_podcast call
    disk,           \* the files of the audio output directory
    poller,         \* the run of the orkes-fe-script.py client script
    cli,            \* the current run of a worker script's main()
    frontend        \* the Flask frontend: requests in flight, its audio file, answers

vars == <<entry, conversation, pc, task, result, order, requests, e,
          audio_results, merged, buffer, final_url, s3, issued, outcome,
          invocations, voiceCalls, translator, gateway, conductor, podcast, disk,
          poller, cli, frontend>>

\* the state of the pipeline, and the state of the repository's other programs
pipeline == <<entry, conversation, pc, task, result, order, requests, e,
              audio_results, merged, buffer, final_url, s3, issued, outcome,
              invocations>>
workers == <<translator, gateway, conductor, podcast, disk>>
clients == <<poller, cli, frontend>>

\* --------------------------------------------------------------- values
None == [kind |-> "None"]
Unbound == [kind |-> "unbound"]
NoResult == [kind |-> "pending"]
NoExc == [type |-> "", msg |-> <<>>]

ClientResponseError == [type |-> "ClientResponseError", msg |-> <<"500", LMNT_API_URL>>]
ClientConnectionError == [type |-> "ClientConnectionError", msg |-> <<"Cannot connect to host">>]
CouldntDecodeError == [type |-> "CouldntDecodeError", msg |-> <<"Decoding failed">>]
CouldntEncodeError == [type |-> "CouldntEncodeError", msg |-> <<"Encoding failed">>]
S3UploadFailedError == [type |-> "S3UploadFailedError", msg |-> <<"Failed to upload">>]
UnboundLocalError == [type |-> "UnboundLocalError", msg |-> <<"final_url">>]
NameError == [type |-> "NameError", msg |-> <<"name 'asyncio' is not defined">>]
RuntimeError(x) == [type |-> "RuntimeError", msg |-> <<"Error generating audio: ">> \o x.msg]

\* response.raise_for_status() (non-success response) or a transport error
SynthesisErrors == {ClientResponseError, ClientConnectionError}

\* ---------------------------------------------------------------- voices
get_voice_mod3(index) == IF index % 3 = 0 THEN "brandon" ELSE "juniper"
get_voice(index) == IF index % 2 = 0 THEN "brandon" ELSE "juniper"

orkes_get_voice(index) == IF index % 2 = 0 THEN "brandon" ELSE "elowen"

\* -------------------------------------------------------- the collaborators
\* The Speech Synthesis Service: the bytes it returns for one request; they
\* may fail to decode as mp3 (valid = FALSE).
Synthesize(text, voice, valid) ==
    [kind |-> "bytes", text |-> text, voice |-> voice, valid |-> valid]

\* AudioSegment.from_file(io.BytesIO(chunk), format="mp3")
Decode(chunk) == [text |-> chunk.text, voice |-> chunk.voice]

\* uuid.uuid4(): a key no earlier call produced (version-4 UUIDs are taken to
\* be unique; which one comes out is immaterial, so the least unused stands for it)
uuid4(used) == {CHOOSE k \in 1..(Cardinality(used) + 1) : k \notin used}

AWS_S3_KEY_constant(used) == {1}
AWS_S3_KEY(used) == uuid4(used)

ObjectUrl(bucket, k) == <<"https://", bucket, ".s3.amazonaws.com/", k>>

\* fetch_tts: the JSON body of one synthesis request
payload(text, voice) ==
    [voice |-> voice, text |-> text, model |-> "blizzard", language |-> "auto",
     format |-> "mp3", sample_rate |-> 24000, seed |-> 123, top_p |-> "0.8",
     temperature |-> 1]

\* session.post(LMNT_API_URL, json=payload, headers=headers): the call as made,
\* with the keyword arguments it is given and no others
post(url, json, headers) == [url |-> url, json |-> json, headers |-> headers]

\* ------------------------------------------------------------- helpers
N == Len(conversation)
Idx == 0..(N - 1)
Tasks == DOMAIN task
Utt(i) == conversation[i + 1]
ThisRun == {k \in 1..Len(s3) : s3[k].inv = invocations}

\* asyncio.gather(*tasks): the results in the order of the awaitables
gather_completion_order(res, ord) == [k \in 1..Len(ord) |-> res[ord[k]]]
gather(res, ord) == [k \in 1..Len(ord) |-> res[k - 1]]

\* ------------------------------------------------------------------ Init
InitPipeline ==
    /\ entry = "none"
    /\ conversation = <<>>
    /\ pc = "idle"
    /\ task = <<>>
    /\ result = <<>>
    /\ order = <<>>
    /\ requests = <<>>
    /\ e = NoExc
    /\ audio_results = None
    /\ merged = <<>>
    /\ buffer = None
    /\ final_url = Unbound
    /\ s3 = <<>>
    /\ issued = {}
    /\ outcome = None
    /\ invocations = 0

InitTranslator ==
    translator = [pc |-> "idle", script_data |-> <<>>, target_language |-> "", calls |-> <<>>,
                  outcome |-> None]

InitGateway ==
    /\ gateway = [pc |-> "idle", call |-> [fn |-> "none"], http |-> <<>>, outcome |-> None]
    /\ conductor = <<>>

InitPodcast ==
    /\ podcast = [pc |-> "idle", script_data |-> <<>>, segments |-> <<>>, podcast_id |-> 0,
                  segment_files |-> <<>>, http |-> <<>>, outcome |-> None]
    /\ disk = <<>>

InitPoller ==
    poller = [pc |-> "idle", workflow_id |-> "", status |-> "NONE", output |-> {},
              gets |-> 0, polls |-> <<>>, exit |-> "none", e |-> None]

InitCli ==
    cli = [pc |-> "idle", script |-> "none", steps |-> <<>>, at |-> 0, e |-> None,
           written |-> <<>>, exit |-> "none"]

InitFrontend ==
    frontend = [request |-> [r \in 1..MaxRequests |->
                                 [pc |-> "none", text |-> "", saved |-> FALSE,
                                  answer |-> None, served |-> None,
                                  overlapped |-> {}]],
                file |-> None]

Init ==
    /\ InitPipeline /\ voiceCalls = <<>> /\ InitTranslator /\ InitGateway /\ InitPodcast
    /\ InitPoller /\ InitCli /\ InitFrontend

\* -------------------------------------------------- scripts/text2speech.py
\* text2speech(conversation) up to the await of asyncio.gather: the session is
\* open and one task per utterance exists.
text2speech(conv) ==
    /\ pc \in {"idle", "done"}
    /\ invocations < MaxInvocations
    /\ entry' = "text2speech"
    /\ conversation' = conv
    /\ task' = [i \in 0..(Len(conv) - 1) |-> "pending"]
    /\ result' = [i \in 0..(Len(conv) - 1) |-> NoResult]
    /\ order' = <<>>
    /\ requests' = <<>>
    /\ e' = NoExc
    /\ audio_results' = None
    /\ merged' = <<>>
    /\ buffer' = None
    /\ final_url' = Unbound
    /\ outcome' = None
    /\ invocations' = invocations + 1
    /\ pc' = "gather"
    /\ UNCHANGED <<s3, issued, voiceCalls, workers, clients>>

\* Variant: every task reads the loop variable after the loop has ended.
fetch_tts_start_last_text(i) ==
    /\ pc = "gather"
    /\ i \in Idx
    /\ task[i] = "pending"
    /\ \A j \in Idx : j < i => task[j] # "pending"
    /\ task' = [task EXCEPT ![i] = "inflight"]
    /\ requests' = Append(requests,
           [index |-> i,
            call |-> post(LMNT_API_URL, payload(Utt(N - 1), get_voice(i)), {"X-API-Key"})])
    /\ UNCHANGED <<entry, conversation, pc, result, order, e, audio_results, merged,
                   buffer, final_url, s3, issued, outcome, invocations, voiceCalls, workers, clients>>

\* Task i runs fetch_tts up to session.post. The loop starts the tasks in list
\* order, all of them in the iteration that follows the await of gather.
fetch_tts_start(i) ==
    /\ pc = "gather"
    /\ i \in Idx
    /\ task[i] = "pending"
    /\ \A j \in Idx : j < i => task[j] # "pending"
    /\ task' = [task EXCEPT ![i] = "inflight"]
    /\ requests' = Append(requests,
           [index |-> i,
            call |-> post(LMNT_API_URL, payload(Utt(i), get_voice(i)), {"X-API-Key"})])
    /\ UNCHANGED <<entry, conversation, pc, result, order, e, audio_results, merged,
                   buffer, final_url, s3, issued, outcome, invocations, voiceCalls, workers, clients>>

\* Variant: the tasks are awaited one by one, so a response can arrive while
\* later requests are not yet posted.
fetch_tts_ok_sequential(i, valid) ==
    /\ pc \in {"gather", "aexit"}
    /\ i \in Idx
    /\ task[i] = "inflight"
    /\ task' = [task EXCEPT ![i] = "done"]
    /\ result' = [result EXCEPT ![i] = Synthesize(Utt(i), get_voice(i), valid)]
    /\ order' = Append(order, i)
    /\ UNCHANGED <<entry, conversation, pc, requests, e, audio_results, merged, buffer,
                   final_url, s3, issued, outcome, invocations, voiceCalls, workers, clients>>

\* Variant: the results go to one shared list, each to the next free position.
fetch_tts_ok_shared_list(i, valid) ==
    /\ pc \in {"gather", "aexit"}
    /\ i \in Idx
    /\ task[i] = "inflight"
    /\ \A j \in Idx : task[j] # "pending"
    /\ task' = [task EXCEPT ![i] = "done"]
    /\ result' = [result EXCEPT ![Len(order)] = Synthesize(Utt(i), get_voice(i), valid)]
    /\ order' = Append(order, i)
    /\ UNCHANGED <<entry, conversation, pc, requests, e, audio_results, merged, buffer,
                   final_url, s3, issued, outcome, invocations, voiceCalls, workers, clients>>

\* Task i: the response arrived with a success status; fetch_tts returns its bytes.
fetch_tts_ok(i, valid) ==
    /\ pc \in {"gather", "aexit"}
    /\ i \in Idx
    /\ task[i] = "inflight"
    /\ \A j \in Idx : task[j] # "pending"
    /\ task' = [task EXCEPT ![i] = "done"]
    /\ result' = [result EXCEPT ![i] = Synthesize(Utt(i), get_voice(i), valid)]
    /\ order' = Append(order, i)
    /\ UNCHANGED <<entry, conversation, pc, requests, e, audio_results, merged, buffer,
                   final_url, s3, issued, outcome, invocations, voiceCalls, workers, clients>>

\* Variant: gather(..., return_exceptions=True), the exception kept as a result.
fetch_tts_fail_as_result(i, x) ==
    /\ pc \in {"gather", "aexit"}
    /\ i \in Idx
    /\ task[i] = "inflight"
    /\ \A j \in Idx : task[j] # "pending"
    /\ task' = [task EXCEPT ![i] = "done"]
    /\ result' = [result EXCEPT ![i] = [kind |-> "exc", exc |-> x]]
    /\ order' = Append(order, i)
    /\ UNCHANGED <<entry, conversation, pc, requests, e, audio_results, merged, buffer,
                   final_url, s3, issued, outcome, invocations, voiceCalls, workers, clients>>

\* Variant: the failed request is posted again.
fetch_tts_fail_retry(i, x) ==
    /\ pc \in {"gather", "aexit"}
    /\ i \in Idx
    /\ task[i] = "inflight"
    /\ \A j \in Idx : task[j] # "pending"
    /\ Len(requests) < 2 * MaxLen
    /\ task' = [task EXCEPT ![i] = "pending"]
    /\ UNCHANGED <<entry, conversation, pc, result, order, requests, e, audio_results,
                   merged, buffer, final_url, s3, issued, outcome, invocations, voiceCalls, workers, clients>>

\* Task i: raise_for_status() or the transport raised. gather hands the first
\* exception to its awaiter at once; the sibling tasks are left running.
fetch_tts_fail(i, x) ==
    /\ pc \in {"gather", "aexit"}
    /\ i \in Idx
    /\ task[i] = "inflight"
    /\ \A j \in Idx : task[j] # "pending"
    /\ task' = [task EXCEPT ![i] = "failed"]
    /\ result' = [result EXCEPT ![i] = [kind |-> "exc", exc |-> x]]
    /\ order' = Append(order, i)
    /\ IF pc = "gather"
       THEN e' = x /\ pc' = "aexit"
       ELSE UNCHANGED <<e, pc>>
    /\ UNCHANGED <<entry, conversation, requests, audio_results, merged, buffer,
                   final_url, s3, issued, outcome, invocations, voiceCalls, workers, clients>>

\* Variant: the wait ends with the first result (asyncio.wait FIRST_COMPLETED).
gather_return_first_completed ==
    /\ pc = "gather"
    /\ N = 0 \/ \E i \in Idx : task[i] = "done"
    /\ audio_results' = [kind |-> "list", items |-> gather(result, order)]
    /\ pc' = "merge"
    /\ UNCHANGED <<entry, conversation, task, result, order, requests, e, merged, buffer,
                   final_url, s3, issued, outcome, invocations, voiceCalls, workers, clients>>

\* Every task has a result: gather returns them, the session closes, asyncio.run
\* returns the list and text2speech calls merge_and_upload with it.
gather_return ==
    /\ pc = "gather"
    /\ \A i \in Idx : task[i] = "done"
    /\ audio_results' = [kind |-> "list", items |-> gather(result, order)]
    /\ pc' = "merge"
    /\ UNCHANGED <<entry, conversation, task, result, order, requests, e, merged, buffer,
                   final_url, s3, issued, outcome, invocations, voiceCalls, workers, clients>>

\* Variant: the shutdown leaves the pending tasks alone.
asyncio_run_raise_no_cancel ==
    /\ pc = "aexit"
    /\ pc' = "except"
    /\ UNCHANGED <<entry, conversation, task, result, order, requests, e, audio_results,
                   merged, buffer, final_url, s3, issued, outcome, invocations, voiceCalls, workers, clients>>

\* The exception leaves process_conversation (the session is closed on the way)
\* and asyncio.run cancels every task that is not done before it re-raises.
asyncio_run_raise ==
    /\ pc = "aexit"
    /\ task' = [i \in Idx |-> IF task[i] = "inflight" THEN "cancelled" ELSE task[i]]
    /\ pc' = "except"
    /\ UNCHANGED <<entry, conversation, result, order, requests, e, audio_results,
                   merged, buffer, final_url, s3, issued, outcome, invocations, voiceCalls, workers, clients>>

\* Variant: a chunk that does not decode ends the loop and what was merged so
\* far is exported.
merge_chunk_partial ==
    /\ pc = "merge"
    /\ Len(merged) < Len(audio_results.items)
    /\ LET chunk == audio_results.items[Len(merged) + 1]
       IN  IF chunk.kind = "bytes" /\ chunk.valid
           THEN merged' = Append(merged, Decode(chunk)) /\ UNCHANGED <<buffer, pc>>
           ELSE buffer' = [kind |-> "mp3", segments |-> merged] /\ pc' = "upload"
                /\ UNCHANGED merged
    /\ UNCHANGED <<entry, conversation, task, result, order, requests, e, audio_results,
                   final_url, s3, issued, outcome, invocations, voiceCalls, workers, clients>>

\* merge_and_upload, one turn of the loop over audio_chunks
merge_chunk ==
    /\ pc = "merge"
    /\ Len(merged) < Len(audio_results.items)
    /\ LET chunk == audio_results.items[Len(merged) + 1]
       IN  IF chunk.kind = "bytes" /\ chunk.valid
           THEN merged' = Append(merged, Decode(chunk)) /\ UNCHANGED <<e, pc>>
           ELSE e' = CouldntDecodeError /\ pc' = "except" /\ UNCHANGED merged
    /\ UNCHANGED <<entry, conversation, task, result, order, requests, audio_results,
                   buffer, final_url, s3, issued, outcome, invocations, voiceCalls, workers, clients>>

\* merged.export(buffer, format="mp3")
export_ok ==
    /\ pc = "merge"
    /\ Len(merged) = Len(audio_results.items)
    /\ buffer' = [kind |-> "mp3", segments |-> merged]
    /\ pc' = "upload"
    /\ UNCHANGED <<entry, conversation, task, result, order, requests, e, audio_results,
                   merged, final_url, s3, issued, outcome, invocations, voiceCalls, workers, clients>>

export_fail ==
    /\ pc = "merge"
    /\ Len(merged) = Len(audio_results.items)
    /\ e' = CouldntEncodeError
    /\ pc' = "except"
    /\ UNCHANGED <<entry, conversation, task, result, order, requests, audio_results,
                   merged, buffer, final_url, s3, issued, outcome, invocations, voiceCalls, workers, clients>>

\* uuid4, upload_fileobj(buffer, bucket, key, ContentType) and the return of the
\* URL into final_url; s3 logs the call, buffer is the file object it sends
upload_ok ==
    /\ pc = "upload"
    /\ \E k \in AWS_S3_KEY(issued) :
          /\ issued' = issued \cup {k}
          /\ s3' = Append(s3, [inv |-> invocations, Bucket |-> AWS_S3_BUCKET, Key |-> k,
                               ContentType |-> "audio/mpeg", stored |-> TRUE])
          /\ final_url' = [kind |-> "str", value |-> ObjectUrl(AWS_S3_BUCKET, k)]
    /\ pc' = "return"
    /\ UNCHANGED <<entry, conversation, task, result, order, requests, e, audio_results,
                   merged, buffer, outcome, invocations, voiceCalls, workers, clients>>

upload_fail ==
    /\ pc = "upload"
    /\ \E k \in AWS_S3_KEY(issued) :
          /\ issued' = issued \cup {k}
          /\ s3' = Append(s3, [inv |-> invocations, Bucket |-> AWS_S3_BUCKET, Key |-> k,
                               ContentType |-> "audio/mpeg", stored |-> FALSE])
    /\ e' = S3UploadFailedError
    /\ pc' = "except"
    /\ UNCHANGED <<entry, conversation, task, result, order, requests, audio_results,
                   merged, buffer, final_url, outcome, invocations, voiceCalls, workers, clients>>

\* The try block ended normally: return final_url
text2speech_return ==
    /\ pc = "return"
    /\ outcome' = [kind |-> "return", value |-> final_url]
    /\ pc' = "done"
    /\ UNCHANGED <<entry, conversation, task, result, order, requests, e, audio_results,
                   merged, buffer, final_url, s3, issued, invocations, voiceCalls, workers, clients>>

\* Variant: final_url = None before the try.
text2speech_except_returns_none ==
    /\ pc = "except"
    /\ outcome' = [kind |-> "return", value |-> None]
    /\ pc' = "done"
    /\ UNCHANGED <<entry, conversation, task, result, order, requests, e, audio_results,
                   merged, buffer, final_url, s3, issued, invocations, voiceCalls, workers, clients>>

\* except Exception as e: print; then return final_url, which was never bound
text2speech_except ==
    /\ pc = "except"
    /\ outcome' = IF final_url = Unbound
                  THEN [kind |-> "raise", exc |-> UnboundLocalError]
                  ELSE [kind |-> "return", value |-> final_url]
    /\ pc' = "done"
    /\ UNCHANGED <<entry, conversation, task, result, order, requests, e, audio_results,
                   merged, buffer, final_url, s3, issued, invocations, voiceCalls, workers, clients>>

\* ---------------------------------------- backend/app/services/orkes.py
\* get_audio_file(conversation): the module binds no name asyncio (its imports
\* are lines 12-23), so line 177 raises NameError inside the try and line 180
\* wraps it.
get_audio_file_call(conv) ==
    /\ pc \in {"idle", "done"}
    /\ invocations < MaxInvocations
    /\ entry' = "get_audio_file"
    /\ conversation' = conv
    /\ task' = <<>>
    /\ result' = <<>>
    /\ order' = <<>>
    /\ requests' = <<>>
    /\ e' = NameError
    /\ audio_results' = None
    /\ merged' = <<>>
    /\ buffer' = None
    /\ final_url' = Unbound
    /\ outcome' = [kind |-> "raise", exc |-> RuntimeError(NameError)]
    /\ invocations' = invocations + 1
    /\ pc' = "done"
    /\ UNCHANGED <<s3, issued>>

\* get_audio_file called on its own
get_audio_file(conv) == get_audio_file_call(conv) /\ UNCHANGED <<voiceCalls, workers, clients>>

Next ==
    \/ \E conv \in Conversations : text2speech(conv)
    \/ \E i \in 0..(MaxLen - 1) : fetch_tts_start(i)
    \/ \E i \in 0..(MaxLen - 1), valid \in BOOLEAN : fetch_tts_ok(i, valid)
    \/ \E i \in 0..(MaxLen - 1), x \in SynthesisErrors : fetch_tts_fail(i, x)
    \/ gather_return
    \/ asyncio_run_raise
    \/ merge_chunk
    \/ export_ok
    \/ export_fail
    \/ upload_ok
    \/ upload_fail
    \/ text2speech_return
    \/ text2speech_except
    \/ \E conv \in Conversations : get_audio_file(conv)

Spec == Init /\ [][Next]_vars

\* ------------------------------------------------ get_voice on its own
Modules == {"scripts.text2speech", "app.services.orkes"}
VoiceOf(m, index) ==
    IF m = "scripts.text2speech" THEN get_voice(index) ELSE orkes_get_voice(index)

\* One call of get_voice of module m; the last two calls and what they returned
\* are kept.
call_get_voice(m, index) ==
    /\ voiceCalls' = LET c == [module |-> m, index |-> index, voice |-> VoiceOf(m, index)]
                     IN  IF Len(voiceCalls) < 2 THEN Append(voiceCalls, c)
                         ELSE <<voiceCalls[2], c>>
    /\ UNCHANGED <<entry, conversation, pc, task, result, order, requests, e,
                   audio_results, merged, buffer, final_url, s3, issued, outcome,
                   invocations, workers, clients>>

NextVoice == \E m \in Modules, index \in 0..MaxIndex : call_get_voice(m, index)

SpecVoice == Init /\ [][NextVoice]_vars

\* ------------------------------------------- scripts/translate_script.py
\* Python values of a JSON document
PyStr(s) == [kind |-> "str", value |-> s]
PyInt(n) == [kind |-> "int", value |-> n]
Absent == [kind |-> "absent"]

ValueError(msg) == [type |-> "ValueError", msg |-> msg]
APIError == [type |-> "APIError", msg |-> <<"Connection error.">>]

\* ScriptTranslator.language_map
language_map ==
    [es |-> "Spanish", fr |-> "French", de |-> "German", it |-> "Italian",
     pt |-> "Portuguese", ja |-> "Japanese", ko |-> "Korean",
     zh |-> "Chinese (Simplified)", ru |-> "Russian", ar |-> "Arabic", hi |-> "Hindi",
     nl |-> "Dutch", sv |-> "Swedish", no |-> "Norwegian", da |-> "Danish",
     fi |-> "Finnish", pl |-> "Polish", tr |-> "Turkish", he |-> "Hebrew", th |-> "Thai"]

\* The inputs: a script is a sequence of words; script_data is a dict in which
\* each required field is absent, None or a value.
Scripts == {<<>>, <<"HOST:", "Hi.", "EXPERT:", "Hello.">>}
Dict(full) == [f \in {g \in DOMAIN full : full[g] # Absent} |-> full[f]]
ScriptData ==
    {Dict([script |-> s, repo_name |-> r, word_count |-> w]) :
        s \in {Absent, None} \cup {PyStr(x) : x \in Scripts},
        r \in {Absent, None, PyStr("octocat/hello")},
        w \in {Absent, None, PyInt(2)}}
LanguageCodes == {"en", "es", "hi", "xx", ""}

\* what the model answers, after .strip(): nothing, or a script of some words
Translations == {<<>>, <<"HOST:", "Hola.", "EXPERT:", "Buenas.">>, <<"HOST:", "Hola.">>}

\* utils.validate_required_fields: the missing fields, in the order required
RECURSIVE missing_fields(_, _)
missing_fields(data, required_fields) ==
    IF required_fields = <<>> THEN <<>>
    ELSE LET field == Head(required_fields)
             rest == missing_fields(data, Tail(required_fields))
         IN  IF field \notin DOMAIN data \/ data[field] = None
             THEN <<field>> \o rest ELSE rest

create_translation_prompt(script, target_language) ==
    [script |-> script, target_language |-> target_language]

\* round(translated_word_count / 150, 1), in tenths of a minute
estimated_duration_tenths(word_count) == (2 * word_count + 15) \div 30

\* process_translation up to its first return, raise or model call
process_translation(script_data, target_language) ==
    /\ translator.pc \in {"idle", "done"}
    /\ LET missing == missing_fields(script_data, <<"script", "repo_name", "word_count">>)
           call(out) == [pc |-> "done", script_data |-> script_data,
                         target_language |-> target_language, calls |-> <<>>,
                         outcome |-> out]
       IN  translator' =
             IF missing # <<>>
             THEN call([kind |-> "raise",
                        exc |-> ValueError(<<"Missing required fields: ", missing>>)])
             ELSE IF target_language \notin DOMAIN language_map
             THEN call([kind |-> "raise",
                        exc |-> ValueError(<<"Unsupported language code ", target_language>>)])
             ELSE IF target_language = "en"
             THEN call([kind |-> "return",
                        value |-> [script |-> script_data["script"].value,
                                   translated_script |-> script_data["script"].value,
                                   original_language |-> "en",
                                   target_language |-> "en",
                                   translation_applied |-> FALSE,
                                   repo_name |-> script_data["repo_name"].value,
                                   word_count |-> script_data["word_count"].value]])
             ELSE [pc |-> "create", script_data |-> script_data,
                   target_language |-> target_language,
                   calls |-> <<create_translation_prompt(script_data["script"].value,
                                                         language_map[target_language])>>,
                   outcome |-> None]
    /\ UNCHANGED <<pipeline, voiceCalls, clients, gateway, conductor, podcast, disk>>

\* translate_script: client.messages.create answered; an empty answer raises,
\* any other is returned with its own word count and duration
messages_create_ok(translated_script) ==
    /\ translator.pc = "create"
    /\ translator' =
         [translator EXCEPT
            !.pc = "done",
            !.outcome =
               IF translated_script = <<>>
               THEN [kind |-> "raise",
                     exc |-> ValueError(<<"Claude returned an empty translation for ",
                                          language_map[translator.target_language]>>)]
               ELSE [kind |-> "return",
                     value |-> [script |-> translator.script_data["script"].value,
                                translated_script |-> translated_script,
                                original_language |-> "en",
                                target_language |-> translator.target_language,
                                target_language_name |->
                                    language_map[translator.target_language],
                                translation_applied |-> TRUE,
                                repo_name |-> translator.script_data["repo_name"].value,
                                word_count |-> Len(translated_script),
                                original_word_count |->
                                    translator.script_data["word_count"].value,
                                estimated_duration_tenths |->
                                    estimated_duration_tenths(Len(translated_script))]]]
    /\ UNCHANGED <<pipeline, voiceCalls, clients, gateway, conductor, podcast, disk>>

\* translate_script: client.messages.create raised; logged and re-raised
messages_create_raise ==
    /\ translator.pc = "create"
    /\ translator' = [translator EXCEPT !.pc = "done",
                                        !.outcome = [kind |-> "raise", exc |-> APIError]]
    /\ UNCHANGED <<pipeline, voiceCalls, clients, gateway, conductor, podcast, disk>>

NextTranslate ==
    \/ \E script_data \in ScriptData, target_language \in LanguageCodes :
          process_translation(script_data, target_language)
    \/ \E translated_script \in Translations : messages_create_ok(translated_script)
    \/ messages_create_raise

SpecTranslate == Init /\ [][NextTranslate]_vars

\* ------------------------- backend/app: routes and services/orkes.py
WORKFLOW_NAME == "claude_to_gemini_using_integration"
ORKES_BASE_URL == "https://developer.orkescloud.com"

\* the request bodies: github_url is a pydantic HttpUrl
Urls == {"https://github.com/octocat/hello", "octocat/hello"}
HttpUrl(url) == url = "https://github.com/octocat/hello"
Languages == {"english", "spanish"}
Modes == {"narration", "interview"}
\* the workflow IDs Orkes hands out, and one it never handed out
WorkflowIds == {"wf-1", "wf-2"}
UnknownId == "wf-0"
WorkflowStatus == {"RUNNING", "COMPLETED", "FAILED"}

TypeError(fn, kw) ==
    [type |-> "TypeError", msg |-> <<fn, "() got an unexpected keyword argument ", kw>>]
OrkesError(msg) == [type |-> "RuntimeError", msg |-> <<msg>>]
ConnectionError == [type |-> "ConnectionError", msg |-> <<"Max retries exceeded">>]
HTTPException(status_code, detail) ==
    [kind |-> "response", status_code |-> status_code, body |-> [detail |-> detail]]
JSONResponse(body) == [kind |-> "response", status_code |-> 200, body |-> body]

\* def start_workflow(*, repo_url, mode="narration"): its keyword parameters
start_workflow_params == {"repo_url", "mode"}

\* get_orkes_token's requests.post
token_request == [method |-> "POST", url |-> <<ORKES_BASE_URL, "/api/token">>, timeout |-> 30]

\* what the current call gives its caller: the route wraps the outcome of
\* start_workflow, a direct call hands it on
finish(out) ==
    IF gateway.call.fn = "generate_podcast"
    THEN IF out.kind = "return"
         THEN JSONResponse([workflow_id |-> out.value])
         ELSE HTTPException(500, out.exc.msg)
    ELSE out

\* start_workflow(**kwargs) up to the token request; a keyword the function
\* does not declare raises TypeError before its body runs
call_start_workflow(call, kwargs) ==
    IF DOMAIN kwargs \subseteq start_workflow_params
    THEN gateway' = [pc |-> "token", call |-> call, http |-> <<token_request>>,
                     outcome |-> None]
    ELSE LET kw == CHOOSE k \in DOMAIN kwargs : k \notin start_workflow_params
             out == [kind |-> "raise", exc |-> TypeError("start_workflow", kw)]
         IN  gateway' = [pc |-> "done", call |-> call, http |-> <<>>,
                         outcome |-> IF call.fn = "generate_podcast"
                                     THEN HTTPException(500, out.exc.msg) ELSE out]

\* POST /api/generate: routes/generate.py
generate_podcast(github_url, language) ==
    /\ gateway.pc \in {"idle", "done"}
    /\ LET call == [fn |-> "generate_podcast", github_url |-> github_url,
                    language |-> language]
       IN  IF ~HttpUrl(github_url)
           THEN gateway' = [pc |-> "done", call |-> call, http |-> <<>>,
                            outcome |-> [kind |-> "response", status_code |-> 422,
                                         body |-> [detail |-> <<"github_url">>]]]
           ELSE call_start_workflow(call, [repo_url |-> github_url, language |-> language])
    /\ UNCHANGED <<pipeline, voiceCalls, clients, translator, conductor, podcast, disk>>

\* services/orkes.py start_workflow, called with the keywords it declares
start_workflow(repo_url, mode) ==
    /\ gateway.pc \in {"idle", "done"}
    /\ call_start_workflow([fn |-> "start_workflow", repo_url |-> repo_url, mode |-> mode],
                           [repo_url |-> repo_url, mode |-> mode])
    /\ UNCHANGED <<pipeline, voiceCalls, clients, translator, conductor, podcast, disk>>

\* resp.json()['token'] of a successful token request
Token == [kind |-> "str", value |-> "token"]

\* start_workflow's requests.post
start_request(token, repo_url, mode) ==
    [method |-> "POST", url |-> <<ORKES_BASE_URL, "/api/workflow">>, timeout |-> 30,
     headers |-> [x_authorization |-> token],
     json |-> [name |-> WORKFLOW_NAME, version |-> 1,
               input |-> [repo_url |-> repo_url, mode |-> mode]]]

\* get_orkes_token: the token arrived; start_workflow posts the start request
token_ok ==
    /\ gateway.pc = "token"
    /\ gateway' = [gateway EXCEPT
                     !.pc = "start",
                     !.http = Append(@, start_request(Token, gateway.call.repo_url,
                                                      gateway.call.mode))]
    /\ UNCHANGED <<pipeline, voiceCalls, clients, translator, conductor, podcast, disk>>

\* Variant: the failure of the token request is swallowed and the start
\* request is sent without a token.
token_fail_continue(x) ==
    /\ gateway.pc = "token"
    /\ gateway' = [gateway EXCEPT
                     !.pc = "start",
                     !.http = Append(@, start_request(None, gateway.call.repo_url,
                                                      gateway.call.mode))]
    /\ UNCHANGED <<pipeline, voiceCalls, clients, translator, conductor, podcast, disk>>

\* get_orkes_token: raise_for_status raised HTTPError, which is wrapped; any
\* other exception of requests (x) leaves get_orkes_token as it is
token_fail(x) ==
    /\ gateway.pc = "token"
    /\ gateway' = [gateway EXCEPT !.pc = "done",
                                  !.outcome = finish([kind |-> "raise", exc |-> x])]
    /\ UNCHANGED <<pipeline, voiceCalls, clients, translator, conductor, podcast, disk>>

\* The start request succeeded: Orkes created the workflow and answered with
\* its ID, which start_workflow returns
start_ok ==
    /\ gateway.pc = "start"
    /\ WorkflowIds \ DOMAIN conductor # {}
    /\ LET workflow_id == CHOOSE w \in WorkflowIds : w \notin DOMAIN conductor
       IN  /\ conductor' = (workflow_id :> "RUNNING") @@ conductor
           /\ gateway' = [gateway EXCEPT
                            !.pc = "done",
                            !.outcome = finish([kind |-> "return", value |-> workflow_id])]
    /\ UNCHANGED <<pipeline, voiceCalls, clients, translator, podcast, disk>>

\* The start request got a success status with an empty body
start_empty ==
    /\ gateway.pc = "start"
    /\ gateway' = [gateway EXCEPT
                     !.pc = "done",
                     !.outcome = finish([kind |-> "raise",
                         exc |-> OrkesError("Invalid response from Orkes: missing workflowId")])]
    /\ UNCHANGED <<pipeline, voiceCalls, clients, translator, conductor, podcast, disk>>

\* The start request failed: HTTPError is wrapped, anything else is not
start_fail(x) ==
    /\ gateway.pc = "start"
    /\ gateway' = [gateway EXCEPT !.pc = "done",
                                  !.outcome = finish([kind |-> "raise", exc |-> x])]
    /\ UNCHANGED <<pipeline, voiceCalls, clients, translator, conductor, podcast, disk>>

\* GET /api/status/{workflow_id}: routes/status.py. The statements that ask
\* Orkes are inside a string literal; the one statement left is the return.
get_status(workflow_id) ==
    /\ gateway.pc \in {"idle", "done"}
    /\ gateway' = [pc |-> "done", call |-> [fn |-> "get_status", workflow_id |-> workflow_id],
                   http |-> <<>>, outcome |-> JSONResponse(workflow_id :> "Working")]
    /\ UNCHANGED <<pipeline, voiceCalls, clients, translator, conductor, podcast, disk>>

\* Orkes Conductor: a running workflow ends
workflow_ends(workflow_id, status) ==
    /\ workflow_id \in DOMAIN conductor
    /\ conductor[workflow_id] = "RUNNING"
    /\ status \in {"COMPLETED", "FAILED"}
    /\ conductor' = [conductor EXCEPT ![workflow_id] = status]
    /\ UNCHANGED <<pipeline, voiceCalls, clients, translator, gateway, podcast, disk>>


\* ------------------------------------------- scripts/generate_podcast.py
MaxLines == 2
MaxPodcasts == 1

\* A line of a script is a sequence of tokens: a label, a blank or a word.
Lines ==
    {<<"HOST:", " ", "Hi.">>, <<" ", "EXPERT:", "Hello.", " ">>, <<"HOST:", " ">>,
     <<" ">>, <<"Hi.", "HOST:">>, <<"EXPERT:", "HOST:", "Hi.">>}
DialogueScripts == UNION {[1..n -> Lines] : n \in 0..MaxLines}

\* PodcastGenerator.voice_configs
voice_configs ==
    [host |-> [voice |-> "burt", speed |-> "1.0", quality |-> "high"],
     expert |-> [voice |-> "sarah", speed |-> "1.0", quality |-> "high"]]

\* str.strip() on a line
RECURSIVE lstrip(_)
lstrip(line) == IF line # <<>> /\ Head(line) = " " THEN lstrip(Tail(line)) ELSE line
RECURSIVE rstrip(_)
rstrip(line) ==
    IF line # <<>> /\ line[Len(line)] = " " THEN rstrip(SubSeq(line, 1, Len(line) - 1))
    ELSE line
strip(line) == rstrip(lstrip(line))
startswith(line, label) == line # <<>> /\ Head(line) = label

\* Variant: each segment is put in front of the earlier ones.
RECURSIVE parse_dialogue_reversed(_)
parse_dialogue_reversed(lines) ==
    IF lines = <<>> THEN <<>>
    ELSE LET line == strip(Head(lines))
             rest == parse_dialogue_reversed(Tail(lines))
             text == strip(Tail(line))
         IN  IF line = <<>> \/ text = <<>> THEN rest
             ELSE IF startswith(line, "HOST:")
             THEN rest \o <<[speaker |-> "host", text |-> text,
                             voice_config |-> voice_configs.host]>>
             ELSE IF startswith(line, "EXPERT:")
             THEN rest \o <<[speaker |-> "expert", text |-> text,
                             voice_config |-> voice_configs.expert]>>
             ELSE rest

\* PodcastGenerator.parse_dialogue over the lines of the script
RECURSIVE parse_dialogue(_)
parse_dialogue(lines) ==
    IF lines = <<>> THEN <<>>
    ELSE LET line == strip(Head(lines))
             rest == parse_dialogue(Tail(lines))
             text == strip(Tail(line))
         IN  IF line = <<>> THEN rest
             ELSE IF startswith(line, "HOST:")
             THEN IF text # <<>>
                  THEN <<[speaker |-> "host", text |-> text,
                          voice_config |-> voice_configs.host]>> \o rest
                  ELSE rest
             ELSE IF startswith(line, "EXPERT:")
             THEN IF text # <<>>
                  THEN <<[speaker |-> "expert", text |-> text,
                          voice_config |-> voice_configs.expert]>> \o rest
                  ELSE rest
             ELSE rest

\* script_data as generate_podcast reads it
PodcastData ==
    {Dict([script |-> PyStr(x), repo_name |-> PyStr("octocat/hello"),
           translated_script |-> Absent]) : x \in DialogueScripts}
    \cup
    {Dict([script |-> s, repo_name |-> r, translated_script |-> t]) :
        s \in {Absent, PyStr(<<<<"HOST:", " ", "Hi.">>>>)},
        r \in {Absent, PyStr("octocat/hello")},
        t \in {Absent, PyStr(<<<<"HOST:", "Hola.">>, <<"EXPERT:", "Buenas.">>>>)}}

RequestException == [type |-> "RequestException", msg |-> <<"503 Server Error">>]

\* the files generate_podcast names
podcast_filepath(podcast_id) == <<"podcast", podcast_id>>
segment_filepath(i, speaker, podcast_id) == <<"segment", i + 1, speaker, podcast_id>>

\* what LMNT synthesizes for one segment, and the URL it is served at
Audio(text, voice_config) == [text |-> text, voice |-> voice_config.voice]
AudioUrl(text, voice_config) == [kind |-> "url", audio |-> Audio(text, voice_config)]

\* synthesize_segment's requests.post
synthesize_request(text, voice_config) ==
    [method |-> "POST", url |-> "https://api.lmnt.com/synthesize", timeout |-> 30,
     json |-> [text |-> text, voice |-> voice_config.voice, speed |-> voice_config.speed,
               quality |-> voice_config.quality]]

\* download_audio's requests.get
download_request(url) == [method |-> "GET", url |-> url, timeout |-> 60]

\* PodcastGenerator.combine_audio_segments: the files after the call
combine_audio_segments(files, segment_files, output_file) ==
    IF segment_files # <<>>
    THEN [kind |-> "return", files |-> (output_file :> files[segment_files[1]]) @@ files]
    ELSE [kind |-> "raise", exc |-> ValueError(<<"No audio segments to combine">>)]

\* Variant: the segments are checked only after the podcast file is set up.
generate_podcast_late_check(script_data) ==
    /\ podcast.pc \in {"idle", "done"}
    /\ podcast.podcast_id < MaxPodcasts
    /\ LET missing == missing_fields(script_data, <<"script", "repo_name">>)
           script == IF "translated_script" \in DOMAIN script_data
                     THEN script_data["translated_script"].value
                     ELSE script_data["script"].value
           raise(x) == [pc |-> "done", script_data |-> script_data, segments |-> <<>>,
                        podcast_id |-> podcast.podcast_id, segment_files |-> <<>>,
                        http |-> <<>>, outcome |-> [kind |-> "raise", exc |-> x]]
       IN  IF missing # <<>>
           THEN /\ podcast' = raise(ValueError(<<"Missing required fields: ", missing>>))
                /\ UNCHANGED disk
           ELSE IF parse_dialogue(script) = <<>>
           THEN /\ podcast' = raise(ValueError(<<"No valid dialogue segments found in script">>))
                /\ disk' = (podcast_filepath(podcast.podcast_id + 1) :> <<>>) @@ disk
           ELSE /\ podcast' = [pc |-> "synthesize", script_data |-> script_data,
                               segments |-> parse_dialogue(script),
                               podcast_id |-> podcast.podcast_id + 1,
                               segment_files |-> <<>>, http |-> <<>>, outcome |-> None]
                /\ UNCHANGED disk
    /\ UNCHANGED <<pipeline, voiceCalls, clients, translator, gateway, conductor>>

\* generate_podcast up to the loop over the segments
PodcastGenerator_generate_podcast(script_data) ==
    /\ podcast.pc \in {"idle", "done"}
    /\ podcast.podcast_id < MaxPodcasts
    /\ LET missing == missing_fields(script_data, <<"script", "repo_name">>)
           script == IF "translated_script" \in DOMAIN script_data
                     THEN script_data["translated_script"].value
                     ELSE script_data["script"].value
           raise(x) == [pc |-> "done", script_data |-> script_data, segments |-> <<>>,
                        podcast_id |-> podcast.podcast_id, segment_files |-> <<>>,
                        http |-> <<>>, outcome |-> [kind |-> "raise", exc |-> x]]
       IN  podcast' =
             IF missing # <<>>
             THEN raise(ValueError(<<"Missing required fields: ", missing>>))
             ELSE IF parse_dialogue(script) = <<>>
             THEN raise(ValueError(<<"No valid dialogue segments found in script">>))
             ELSE [pc |-> "synthesize", script_data |-> script_data,
                   segments |-> parse_dialogue(script),
                   podcast_id |-> podcast.podcast_id + 1, segment_files |-> <<>>,
                   http |-> <<>>, outcome |-> None]
    /\ UNCHANGED <<pipeline, voiceCalls, clients, translator, gateway, conductor, disk>>

\* synthesize_segment for segment i: the request is posted and answered; the
\* answer may lack 'url'
synthesize_segment_ok(has_url) ==
    /\ podcast.pc = "synthesize"
    /\ LET segment == podcast.segments[Len(podcast.segment_files) + 1]
           audio_url == IF has_url THEN AudioUrl(segment.text, segment.voice_config)
                        ELSE None
       IN  podcast' = [podcast EXCEPT
                         !.pc = "download",
                         !.http = @ \o <<synthesize_request(segment.text, segment.voice_config),
                                         download_request(audio_url)>>]
    /\ UNCHANGED <<pipeline, voiceCalls, clients, translator, gateway, conductor, disk>>

\* synthesize_segment: requests raised; logged and re-raised out of generate_podcast
synthesize_segment_fail ==
    /\ podcast.pc = "synthesize"
    /\ LET segment == podcast.segments[Len(podcast.segment_files) + 1]
       IN  podcast' = [podcast EXCEPT
                         !.pc = "done",
                         !.http = Append(@, synthesize_request(segment.text,
                                                               segment.voice_config)),
                         !.outcome = [kind |-> "raise", exc |-> RequestException]]
    /\ UNCHANGED <<pipeline, voiceCalls, clients, translator, gateway, conductor, disk>>

\* download_audio for segment i: the file is written and joins segment_files
download_audio_ok ==
    /\ podcast.pc = "download"
    /\ LET i == Len(podcast.segment_files)
           segment == podcast.segments[i + 1]
           url == podcast.http[Len(podcast.http)].url
           filepath == segment_filepath(i, segment.speaker, podcast.podcast_id)
       IN  /\ url # None
           /\ disk' = (filepath :> <<url.audio>>) @@ disk
           /\ podcast' = [podcast EXCEPT
                            !.segment_files = Append(@, filepath),
                            !.pc = IF i + 1 = Len(podcast.segments) THEN "combine"
                                   ELSE "synthesize"]
    /\ UNCHANGED <<pipeline, voiceCalls, clients, translator, gateway, conductor>>

\* download_audio: requests raised (as it does for a missing URL)
download_audio_fail ==
    /\ podcast.pc = "download"
    /\ podcast' = [podcast EXCEPT !.pc = "done",
                                  !.outcome = [kind |-> "raise", exc |-> RequestException]]
    /\ UNCHANGED <<pipeline, voiceCalls, clients, translator, gateway, conductor, disk>>

\* generate_podcast: self.combine_audio_segments(segment_files, podcast_filepath)
generate_podcast_combine ==
    /\ podcast.pc = "combine"
    /\ LET r == combine_audio_segments(disk, podcast.segment_files,
                                       podcast_filepath(podcast.podcast_id))
       IN  IF r.kind = "return"
           THEN disk' = r.files /\ podcast' = [podcast EXCEPT !.pc = "cleanup"]
           ELSE UNCHANGED disk
                /\ podcast' = [podcast EXCEPT !.pc = "done",
                                              !.outcome = [kind |-> "raise", exc |-> r.exc]]
    /\ UNCHANGED <<pipeline, voiceCalls, clients, translator, gateway, conductor>>

\* generate_podcast: the segment files are removed and the result is returned
generate_podcast_return ==
    /\ podcast.pc = "cleanup"
    /\ LET removed == {podcast.segment_files[k] : k \in 1..Len(podcast.segment_files)}
       IN  disk' = [f \in DOMAIN disk \ removed |-> disk[f]]
    /\ podcast' = [podcast EXCEPT
                     !.pc = "done",
                     !.outcome = [kind |-> "return",
                                  value |-> [podcast_id |-> podcast.podcast_id,
                                             filepath |-> podcast_filepath(podcast.podcast_id),
                                             segments_count |-> Len(podcast.segments),
                                             format |-> "mp3"]]]
    /\ UNCHANGED <<pipeline, voiceCalls, clients, translator, gateway, conductor>>

NextPodcast ==
    \/ \E script_data \in PodcastData : PodcastGenerator_generate_podcast(script_data)
    \/ \E has_url \in BOOLEAN : synthesize_segment_ok(has_url)
    \/ synthesize_segment_fail
    \/ download_audio_ok
    \/ download_audio_fail
    \/ generate_podcast_combine
    \/ generate_podcast_return

SpecPodcast == Init /\ [][NextPodcast]_vars

\* ----------------------- services/orkes.py: extract_audio_via_s3
PyList(items) == [kind |-> "list", items |-> items]

\* the 'output' of a workflow as Orkes reports it: no such key, or a dict in
\* which 'summary' is absent, null, a string or a list of utterances
WorkflowOutputs ==
    {Absent} \cup
    {Dict([summary |-> v]) :
        v \in {Absent, None, PyStr(<<"utterance", 1>>)} \cup {PyList(c) : c \in Conversations}}

\* data.get("output", {}).get("summary")
summary_of(data) ==
    IF data.output = Absent THEN None
    ELSE IF "summary" \in DOMAIN data.output THEN data.output["summary"]
    ELSE None
isinstance_list(v) == v.kind = "list"

\* get_workflow_status's requests.get
status_request(token, workflow_id) ==
    [method |-> "GET", url |-> <<ORKES_BASE_URL, "/api/workflow/", workflow_id>>,
     timeout |-> 20, headers |-> [x_authorization |-> token]]

NotCompleted(status) ==
    [type |-> "RuntimeError", msg |-> <<"Workflow not completed yet: ", status>>]

\* extract_audio_via_s3(workflow_id) up to get_workflow_status's token request
extract_audio_via_s3(workflow_id) ==
    /\ gateway.pc \in {"idle", "done"}
    /\ gateway' = [pc |-> "status_token",
                   call |-> [fn |-> "extract_audio_via_s3", workflow_id |-> workflow_id],
                   http |-> <<token_request>>, outcome |-> None]
    /\ UNCHANGED <<pipeline, voiceCalls, clients, translator, conductor, podcast, disk>>

\* get_workflow_status: the token arrived and the status request is sent
status_token_ok ==
    /\ gateway.pc = "status_token"
    /\ gateway' = [gateway EXCEPT
                     !.pc = "status",
                     !.http = Append(@, status_request(Token, gateway.call.workflow_id))]
    /\ UNCHANGED <<pipeline, voiceCalls, clients, translator, conductor, podcast, disk>>

\* get_workflow_status: the token request or the status request failed
\* (HTTPError wrapped in RuntimeError, anything else as it is)
get_workflow_status_fail(x) ==
    /\ gateway.pc \in {"status_token", "status"}
    /\ gateway' = [gateway EXCEPT !.pc = "done",
                                  !.outcome = [kind |-> "raise", exc |-> x]]
    /\ UNCHANGED <<pipeline, voiceCalls, clients, translator, conductor, podcast, disk>>

\* Variant: the status of the workflow is not looked at.
extract_audio_no_status_check(output) ==
    /\ gateway.pc = "status"
    /\ gateway.call.workflow_id \in DOMAIN conductor
    /\ LET data == [status |-> conductor[gateway.call.workflow_id], output |-> output]
           summary == summary_of(data)
           done(x) == [gateway EXCEPT
                         !.pc = "done",
                         !.call = [fn |-> "extract_audio_via_s3",
                                   workflow_id |-> gateway.call.workflow_id, data |-> data],
                         !.outcome = [kind |-> "raise", exc |-> x]]
       IN  IF ~isinstance_list(summary)
           THEN /\ gateway' = done(OrkesError("Workflow output missing 'summary' list"))
                /\ UNCHANGED pipeline
           ELSE /\ get_audio_file_call(summary.items)
                /\ gateway' = done(RuntimeError(NameError))
    /\ UNCHANGED <<voiceCalls, clients, translator, conductor, podcast, disk>>

\* The status request succeeded: data is what Orkes reports for the workflow.
\* extract_audio_via_s3 checks it and calls get_audio_file(summary), whose
\* exception leaves it unchanged.
extract_audio_status_ok(output) ==
    /\ gateway.pc = "status"
    /\ gateway.call.workflow_id \in DOMAIN conductor
    /\ LET data == [status |-> conductor[gateway.call.workflow_id], output |-> output]
           summary == summary_of(data)
           done(x) == [gateway EXCEPT
                         !.pc = "done",
                         !.call = [fn |-> "extract_audio_via_s3",
                                   workflow_id |-> gateway.call.workflow_id, data |-> data],
                         !.outcome = [kind |-> "raise", exc |-> x]]
       IN  IF data.status # "COMPLETED"
           THEN /\ gateway' = done(NotCompleted(data.status))
                /\ UNCHANGED pipeline
           ELSE IF ~isinstance_list(summary)
           THEN /\ gateway' = done(OrkesError("Workflow output missing 'summary' list"))
                /\ UNCHANGED pipeline
           ELSE /\ get_audio_file_call(summary.items)
                /\ gateway' = done(RuntimeError(NameError))
    /\ UNCHANGED <<voiceCalls, clients, translator, conductor, podcast, disk>>

NextGateway ==
    \/ \E github_url \in Urls, language \in Languages : generate_podcast(github_url, language)
    \/ \E repo_url \in Urls, mode \in Modes : start_workflow(repo_url, mode)
    \/ token_ok
    \/ \E x \in {OrkesError("Failed to authenticate with Orkes"), ConnectionError} : token_fail(x)
    \/ start_ok
    \/ start_empty
    \/ \E x \in {OrkesError("Failed to start workflow with Orkes"), ConnectionError} : start_fail(x)
    \/ \E workflow_id \in WorkflowIds \cup {UnknownId} : get_status(workflow_id)
    \/ \E workflow_id \in WorkflowIds, status \in WorkflowStatus : workflow_ends(workflow_id, status)
    \/ \E workflow_id \in WorkflowIds \cup {UnknownId} : extract_audio_via_s3(workflow_id)
    \/ status_token_ok
    \/ \E x \in {OrkesError("Failed to authenticate with Orkes"),
                 OrkesError("Failed to fetch workflow status from Orkes"), ConnectionError} :
          get_workflow_status_fail(x)
    \/ \E output \in WorkflowOutputs : extract_audio_status_ok(output)

SpecGateway == Init /\ [][NextGateway]_vars

\* ------------------------------------------------- the polling client script
\* orkes-fe-script.py starts the workflow GitTranslate_v3 and then polls its
\* status in a `while True` loop with no delay, no timeout and no try block.
MaxPolls == 3

\* The statuses a Conductor workflow can report.  The script compares the
\* reported status with two of them only.
ConductorStatus == {"RUNNING", "PAUSED", "COMPLETED", "FAILED", "TERMINATED", "TIMED_OUT"}
TerminalStatus == {"COMPLETED", "FAILED", "TERMINATED", "TIMED_OUT"}

KeyError(key) == [type |-> "KeyError", msg |-> <<key>>]
JSONDecodeError == [type |-> "JSONDecodeError", msg |-> <<"Expecting value">>]

\* response = requests.post(url, ...); workflow_id = response.text: the answer's
\* status code is not looked at, so the body of a rejected start is used as the
\* workflow id, and no workflow exists under it.
script_start(accepted) ==
    /\ poller.pc = "idle"
    /\ poller' = [poller EXCEPT !.pc = "loop",
                                !.workflow_id = IF accepted THEN "wf-1" ELSE "error-body",
                                !.status = IF accepted THEN "RUNNING" ELSE "NONE"]
    /\ UNCHANGED <<pipeline, voiceCalls, workers, cli, frontend>>

\* requests.post raises: the script ends before the loop is entered.
script_start_raise(x) ==
    /\ poller.pc = "idle"
    /\ poller' = [poller EXCEPT !.pc = "done", !.exit = "start_raise", !.e = x]
    /\ UNCHANGED <<pipeline, voiceCalls, workers, cli, frontend>>

\* Conductor moves the workflow on; a terminal status is final.
workflow_moves(status) ==
    /\ poller.status \in ConductorStatus \ TerminalStatus
    /\ status \in ConductorStatus \ {poller.status}
    /\ poller' = [poller EXCEPT !.status = status]
    /\ UNCHANGED <<pipeline, voiceCalls, workers, cli, frontend>>

\* The workflow's output is whatever its last task produced: with or without
\* the key 'data'.
workflow_output(keys) ==
    /\ poller.status = "RUNNING"
    /\ poller.output # keys
    /\ poller' = [poller EXCEPT !.output = keys]
    /\ UNCHANGED <<pipeline, voiceCalls, workers, cli, frontend>>

\* Loop head: response = requests.get(url, headers=headers).
poll_get ==
    /\ poller.pc = "loop"
    /\ poller.gets < MaxPolls
    /\ poller' = [poller EXCEPT !.pc = "response", !.gets = @ + 1]
    /\ UNCHANGED <<pipeline, voiceCalls, workers, cli, frontend>>

\* requests.get raises (no connection, ...): nothing catches it.
poll_get_raise(x) ==
    /\ poller.pc = "loop"
    /\ poller.gets < MaxPolls
    /\ poller' = [poller EXCEPT !.pc = "done", !.exit = "raise", !.e = x, !.gets = @ + 1]
    /\ UNCHANGED <<pipeline, voiceCalls, workers, cli, frontend>>

\* A client that leaves the loop on every terminal status.
loop_body_any_terminal(status) ==
    LET seen == Append(poller.polls, status)
    IN  IF status \in TerminalStatus
        THEN [poller EXCEPT !.polls = seen, !.pc = "done", !.exit = "break"]
        ELSE [poller EXCEPT !.polls = seen, !.pc = "loop"]

\* The if / elif / else of one iteration, on the reported status.
loop_body(status) ==
    LET seen == Append(poller.polls, status)
    IN  IF status = "COMPLETED"
        THEN IF "data" \in poller.output
             THEN [poller EXCEPT !.polls = seen, !.pc = "done", !.exit = "break"]
             ELSE [poller EXCEPT !.polls = seen, !.pc = "done", !.exit = "raise",
                                 !.e = KeyError("data")]
        ELSE IF status = "FAILED"
        THEN [poller EXCEPT !.polls = seen, !.pc = "done", !.exit = "break"]
        ELSE [poller EXCEPT !.polls = seen, !.pc = "loop"]

\* The rest of one iteration, on a JSON body that reports the workflow's status.
poll_response ==
    /\ poller.pc = "response"
    /\ poller.status \in ConductorStatus
    /\ poller' = loop_body(poller.status)
    /\ UNCHANGED <<pipeline, voiceCalls, workers, cli, frontend>>

\* The body is JSON without the key "status" (the answer for an id Conductor does
\* not know, or any error object), or it is not JSON at all.
poll_response_no_status(x) ==
    /\ poller.pc = "response"
    /\ x \in {KeyError("status"), JSONDecodeError}
    /\ x = JSONDecodeError \/ poller.status = "NONE"
    /\ poller' = [poller EXCEPT !.pc = "done", !.exit = "raise", !.e = x]
    /\ UNCHANGED <<pipeline, voiceCalls, workers, cli, frontend>>

NextPoll ==
    \/ \E accepted \in BOOLEAN : script_start(accepted)
    \/ script_start_raise(ConnectionError)
    \/ \E status \in ConductorStatus : workflow_moves(status)
    \/ \E keys \in {{"data"}, {"summary"}} : workflow_output(keys)
    \/ poll_get
    \/ poll_get_raise(ConnectionError)
    \/ poll_response
    \/ \E x \in {KeyError("status"), JSONDecodeError} : poll_response_no_status(x)

SpecPoll == Init /\ [][NextPoll]_vars

\* ------------------------------------------------ the worker scripts' main()
\* Each worker script is run as `python script.py --input I --output O`; its
\* main() reads the input envelope, checks it, builds its worker object, runs it
\* and writes a response envelope.  The output destination is taken to be
\* writable and the worker's result to be JSON-serialisable.
WorkerScripts ==
    {"fetch_repo_data", "summarize_repo", "translate_script", "generate_podcast",
     "return_audio_url"}

\* utils.create_success_response / utils.create_error_response
create_success_response(data) == [status |-> "success", data |-> data, error |-> None]
create_error_response(error_message) ==
    [status |-> "error", data |-> None, error |-> PyStr(error_message)]

\* what a worker returns for its input
ResultOf(script) == [kind |-> "dict", of |-> script]

\* The statements of main()'s try block, in program order.  return_audio_url
\* builds its provider first and, with --podcast-id, looks the podcast up
\* instead of reading an input file.
steps_of(script, by_id) ==
    IF script = "return_audio_url"
    THEN IF by_id THEN <<"construct", "lookup", "process", "write">>
                  ELSE <<"construct", "read", "validate", "process", "write">>
    ELSE <<"read", "validate", "construct", "process", "write">>

FileNotFoundError == [type |-> "FileNotFoundError", msg |-> <<"Input file not found">>]

\* what a statement of the try block can raise
raises(step) ==
    CASE step = "read"      -> {FileNotFoundError, ValueError(<<"Invalid JSON input">>),
                                JSONDecodeError}
      [] step = "validate"  -> {ValueError(<<"Input must contain 'data' field">>)}
      [] step = "construct" -> {ValueError(<<"API key is required">>)}
      [] step = "lookup"    -> {}
      [] step = "process"   -> {APIError, ValueError(<<"Missing required fields">>)}
      [] step = "write"     -> {}

\* args = parser.parse_args(); try:
main(script, by_id) ==
    /\ cli.pc = "idle"
    /\ by_id => script = "return_audio_url"
    /\ cli' = [cli EXCEPT !.pc = "try", !.script = script,
                          !.steps = steps_of(script, by_id), !.at = 1]
    /\ UNCHANGED <<pipeline, voiceCalls, workers, poller, frontend>>

\* a statement of the try block completes
main_step ==
    /\ cli.pc = "try"
    /\ cli.steps[cli.at] \notin {"lookup", "write"}
    /\ cli' = [cli EXCEPT !.at = @ + 1]
    /\ UNCHANGED <<pipeline, voiceCalls, workers, poller, frontend>>

\* a statement of the try block raises
main_step_raise(x) ==
    /\ cli.pc = "try"
    /\ x \in raises(cli.steps[cli.at])
    /\ cli' = [cli EXCEPT !.pc = "except", !.e = x]
    /\ UNCHANGED <<pipeline, voiceCalls, workers, poller, frontend>>

\* return_audio_url --podcast-id: provider.get_podcast_by_id; an unknown id is
\* answered inside the try block and ended with sys.exit(1), which `except
\* Exception` does not catch.
main_lookup(found) ==
    /\ cli.pc = "try"
    /\ cli.steps[cli.at] = "lookup"
    /\ cli' = IF found THEN [cli EXCEPT !.at = @ + 1]
              ELSE [cli EXCEPT !.pc = "done", !.exit = "sys.exit(1)",
                      !.written = Append(@, create_error_response(<<"Podcast not found">>))]
    /\ UNCHANGED <<pipeline, voiceCalls, workers, poller, frontend>>

\* json.dump(create_success_response(result), ...) / write_output(output_data, ...)
main_write ==
    /\ cli.pc = "try"
    /\ cli.steps[cli.at] = "write"
    /\ cli' = [cli EXCEPT !.pc = "done", !.exit = "return",
                          !.written = Append(@, create_success_response(ResultOf(cli.script)))]
    /\ UNCHANGED <<pipeline, voiceCalls, workers, poller, frontend>>

AttributeError ==
    [type |-> "AttributeError", msg |-> <<"'Namespace' object has no attribute 'gargs'">>]

\* The `except Exception as e` clause (the JSONDecodeError clause of three of the
\* scripts does the same).  summarize_repo opens args.gargs.output.
except_Exception(script) ==
    IF script = "summarize_repo"
    THEN [cli EXCEPT !.pc = "done", !.exit = "traceback", !.e = AttributeError]
    ELSE [cli EXCEPT !.pc = "done",
                     !.exit = IF script = "fetch_repo_data" THEN "return" ELSE "sys.exit(1)",
                     !.written = Append(@, create_error_response(cli.e.msg))]

main_except ==
    /\ cli.pc = "except"
    /\ cli' = except_Exception(cli.script)
    /\ UNCHANGED <<pipeline, voiceCalls, workers, poller, frontend>>

AllRaises == UNION {raises(step) : step \in {"read", "validate", "construct", "process"}}

NextCli ==
    \/ \E script \in WorkerScripts, by_id \in BOOLEAN : main(script, by_id)
    \/ main_step
    \/ \E x \in AllRaises : main_step_raise(x)
    \/ \E found \in BOOLEAN : main_lookup(found)
    \/ main_write
    \/ main_except

SpecCli == Init /\ [][NextCli]_vars

\* ------------------------------------------------------- the Flask frontend
\* frontend/app.py serves POST /generate with Flask's development server, which
\* handles each request in a thread of its own; frontend/lmnt.py writes the
\* synthesised audio to the file it is given.
FrontendTexts == {"", "hello", "world"}

\* the one file every request is told to write, and the URL it is served at
output_file == <<"static/audio", "output.mp3">>
audio_url == "/static/audio/output.mp3"

\* the audio LMNT returns for a text (voice "ava")
speech(text) == [kind |-> "mp3", voice |-> "ava", text |-> text]

jsonify(status_code, body) == [kind |-> "response", status_code |-> status_code, body |-> body]

\* the requests being handled now
InFlight == {q \in 1..MaxRequests : frontend.request[q].pc \in {"text_to_speech", "return"}}

\* POST /generate arrives: text = request.json.get('text'); no text is a 400.
\* (overlapped records, for each request, the requests handled at the same time.)
generate_speech(r, text) ==
    /\ frontend.request[r].pc = "none"
    /\ frontend' =
         IF text = ""
         THEN [frontend EXCEPT !.request[r].pc = "answered",
                 !.request[r].answer = jsonify(400, [error |-> <<"No text provided">>])]
         ELSE [frontend EXCEPT !.request =
                 [q \in 1..MaxRequests |->
                    IF q = r THEN [@[q] EXCEPT !.pc = "text_to_speech", !.text = text,
                                               !.overlapped = InFlight]
                    ELSE IF q \in InFlight THEN [@[q] EXCEPT !.overlapped = @ \cup {r}]
                    ELSE @[q]]]
    /\ UNCHANGED <<pipeline, voiceCalls, workers, poller, cli>>

\* text_to_speech: the synthesis request succeeds and the audio is written to
\* output_file, replacing what the file held.
text_to_speech_ok(r) ==
    /\ frontend.request[r].pc = "text_to_speech"
    /\ frontend' = [frontend EXCEPT !.request[r].pc = "return",
                                    !.request[r].saved = TRUE,
                                    !.file = speech(frontend.request[r].text)]
    /\ UNCHANGED <<pipeline, voiceCalls, workers, poller, cli>>

\* text_to_speech: raise_for_status raises; the except clause prints the error
\* and the function returns without having written anything.
text_to_speech_http_error(r) ==
    /\ frontend.request[r].pc = "text_to_speech"
    /\ frontend' = [frontend EXCEPT !.request[r].pc = "return"]
    /\ UNCHANGED <<pipeline, voiceCalls, workers, poller, cli>>

\* text_to_speech: requests.post itself raises; the except clause reads
\* response.text of a response that was never assigned, and generate_speech's
\* `except Exception` answers 500.
text_to_speech_no_response(r) ==
    /\ frontend.request[r].pc = "text_to_speech"
    /\ frontend' = [frontend EXCEPT !.request[r].pc = "answered",
                      !.request[r].answer = jsonify(500, [error |-> <<"UnboundLocalError", "response">>])]
    /\ UNCHANGED <<pipeline, voiceCalls, workers, poller, cli>>

\* return jsonify({'success': True, 'audio_url': '/static/audio/output.mp3'})
generate_speech_return(r) ==
    /\ frontend.request[r].pc = "return"
    /\ frontend' = [frontend EXCEPT !.request[r].pc = "answered",
                      !.request[r].answer =
                          jsonify(200, [success |-> TRUE, audio_url |-> audio_url])]
    /\ UNCHANGED <<pipeline, voiceCalls, workers, poller, cli>>

\* The client of request r fetches the audio_url it was given: Flask's static
\* route sends the file as it is now.
get_static_audio(r) ==
    /\ frontend.request[r].pc = "answered"
    /\ frontend.request[r].answer.status_code = 200
    /\ frontend' = [frontend EXCEPT !.request[r].pc = "served",
                                    !.request[r].served = frontend.file]
    /\ UNCHANGED <<pipeline, voiceCalls, workers, poller, cli>>

NextFrontend ==
    \E r \in 1..MaxRequests :
        \/ \E text \in FrontendTexts : generate_speech(r, text)
        \/ text_to_speech_ok(r)
        \/ text_to_speech_http_error(r)
        \/ text_to_speech_no_response(r)
        \/ generate_speech_return(r)
        \/ get_static_audio(r)

SpecFrontend == Init /\ [][NextFrontend]_vars

\* ======================================================== the claims
FailedRequests == {i \in DOMAIN result : result[i].kind = "exc"}
UploadFailed == \E k \in ThisRun : ~s3[k].stored
Expected(i) == [text |-> Utt(i), voice |-> get_voice(i)]

\* What an exception tells its receiver: x is c, or x's message ends with c's.
Carries(x, c) ==
    \/ x = c
    \/ /\ Len(x.msg) >= Len(c.msg)
       /\ SubSeq(x.msg, Len(x.msg) - Len(c.msg) + 1, Len(x.msg)) = c.msg
ErrorKind(x) ==
    IF Carries(x, S3UploadFailedError) THEN "upload error"
    ELSE IF \E s \in SynthesisErrors : Carries(x, s) THEN "synthesis error"
    ELSE IF Carries(x, CouldntDecodeError) THEN "decode error"
    ELSE "other"
IndicesNamedBy(x) == IF "index" \in DOMAIN x THEN {x.index} ELSE {}

\* C1: the list handed to merge_and_upload holds at position i the synthesis
\* result of utterance i (its text, its voice), whatever the completion order,
\* and the merged and the exported track keep that order.
C1_InputOrder ==
    /\ audio_results # None =>
          /\ Len(audio_results.items) = N
          /\ \A i \in Idx :
                /\ audio_results.items[i + 1] = result[i]
                /\ audio_results.items[i + 1].text = Utt(i)
                /\ audio_results.items[i + 1].voice = get_voice(i)
    /\ \A k \in 1..Len(merged) : merged[k] = Expected(k - 1)
    /\ buffer # None => buffer.segments = [k \in 1..N |-> Expected(k - 1)]

\* C1 witness: a track was exported from three results that completed in an
\* order other than the input order.
C1_Witness ==
    /\ buffer # None
    /\ N = 3
    /\ order = <<2, 0, 1>>

\* C2: once a synthesis request of the invocation has failed, there is no list
\* of results, nothing merged or exported, no upload attempt, and the entry
\* point does not return a URL.
C2_AtomicFailure ==
    FailedRequests # {} =>
        /\ audio_results = None
        /\ merged = <<>>
        /\ buffer = None
        /\ ThisRun = {}
        /\ (pc = "done" => outcome.kind = "raise")

\* C2 witness: the invocation ended with the request of index 1 of 3 failed and
\* the request of index 0 answered.
C2_Witness ==
    /\ pc = "done"
    /\ N = 3
    /\ 1 \in FailedRequests
    /\ task[0] = "done"

\* C3 (as claimed): an invocation with an empty conversation posts no synthesis
\* request, attempts no upload and ends by raising.
C3_EmptyInputRejected ==
    (pc # "idle" /\ conversation = <<>>) =>
        /\ requests = <<>>
        /\ ThisRun = {}
        /\ (pc = "done" => outcome.kind = "raise")

C5_UploadErrorKind ==
    (pc = "done" /\ N > 0 /\ UploadFailed) =>
        /\ outcome.kind = "raise"
        /\ ErrorKind(outcome.exc) = "upload error"

\* C6 (as claimed): an invocation (here: of a non-empty conversation) ends
\* either by returning the URL of an upload of its own that was stored, or by
\* raising a failure that carries the error that stopped it.
C6_UrlOrCause ==
    (pc = "done" /\ N > 0) =>
        \/ /\ outcome.kind = "return"
           /\ \E k \in ThisRun :
                 /\ s3[k].stored
                 /\ outcome.value = [kind |-> "str", value |-> ObjectUrl(s3[k].Bucket, s3[k].Key)]
        \/ /\ outcome.kind = "raise"
           /\ e # NoExc
           /\ Carries(outcome.exc, e)

\* C7: get_voice gives the same voice for the same index, different voices for
\* i and i + 1, the same for i and i + 2, the first voice of its module for an
\* even index and the second for an odd one.
C7_VoiceAlternates ==
    \A a, b \in 1..Len(voiceCalls) :
        LET x == voiceCalls[a]
            y == voiceCalls[b]
        IN  /\ x.voice = IF x.index % 2 = 0 THEN "brandon"
                         ELSE IF x.module = "scripts.text2speech" THEN "juniper"
                         ELSE "elowen"
            /\ x.module = y.module =>
                  /\ (y.index = x.index => y.voice = x.voice)
                  /\ (y.index = x.index + 1 => y.voice # x.voice)
                  /\ (y.index = x.index + 2 => y.voice = x.voice)

\* C7 witness: get_voice of scripts/text2speech.py was called for 4 and then 5.
C7_Witness ==
    /\ Len(voiceCalls) = 2
    /\ voiceCalls[1].module = "scripts.text2speech"
    /\ voiceCalls[2].module = "scripts.text2speech"
    /\ voiceCalls[1].index = 4
    /\ voiceCalls[2].index = 5

\* C8: no two uploads, over all invocations, use the same key; every upload
\* goes to the bucket with content type audio/mpeg; and a returned URL is
\* https://<bucket>.s3.amazonaws.com/<key> of the bucket and key of a stored
\* upload of that invocation.
C8_FreshKeyAndUrl ==
    /\ \A a, b \in 1..Len(s3) : a # b => s3[a].Key # s3[b].Key
    /\ \A a \in 1..Len(s3) :
          s3[a].Bucket = "github-podcasts" /\ s3[a].ContentType = "audio/mpeg"
    /\ (pc = "done" /\ outcome.kind = "return") =>
          \E k \in ThisRun :
             /\ s3[k].stored
             /\ outcome.value = [kind |-> "str",
                                 value |-> <<"https://", s3[k].Bucket,
                                             ".s3.amazonaws.com/", s3[k].Key>>]

\* C8 witness: the second of two invocations that both uploaded has returned.
C8_Witness ==
    /\ pc = "done"
    /\ outcome.kind = "return"
    /\ Len(s3) = 2
    /\ s3[1].stored
    /\ s3[2].stored

\* C9: within one invocation no utterance index is the subject of two
\* synthesis requests and the object store gets at most one upload attempt.
C9_NoRetry ==
    /\ \A a, b \in 1..Len(requests) : a # b => requests[a].index # requests[b].index
    /\ Cardinality(ThisRun) <= 1

\* C9 witness: an invocation of three utterances ended after a request failed.
C9_Witness ==
    /\ pc = "done"
    /\ N = 3
    /\ Len(requests) = 3
    /\ FailedRequests # {}

\* C10 (as claimed): no request is ever cancelled, and once process_conversation
\* is over (asyncio.run returned or raised) every request has itself completed
\* or failed.
C10_NoCancellation ==
    /\ \A i \in Tasks : task[i] # "cancelled"
    /\ pc \notin {"idle", "gather", "aexit"} =>
          \A i \in Tasks : task[i] \in {"done", "failed"}

\* C10 (amended): the merge starts only when every request has completed; after
\* a failure no request is in flight once asyncio.run has raised, the ones that
\* were in flight having been cancelled; and a request is cancelled only when
\* a sibling failed.
C10_CancelledOnFailure ==
    /\ pc \in {"merge", "upload", "return"} => \A i \in Tasks : task[i] = "done"
    /\ pc \in {"except", "done"} =>
          \A i \in Tasks : task[i] \in {"done", "failed", "cancelled"}
    /\ \A i \in Tasks : task[i] = "cancelled" => \E j \in Tasks : task[j] = "failed"

\* C10 witness: asyncio.run has raised and a request that was in flight is
\* cancelled.
C10_Witness ==
    /\ pc = "except"
    /\ \E i \in Tasks : task[i] = "cancelled"

Undecodable == {k \in 1..Len(audio_results.items) : ~audio_results.items[k].valid}

C12_DecodeFailureAtomic ==
    (audio_results # None /\ Undecodable # {}) =>
        /\ buffer = None
        /\ ThisRun = {}
        /\ final_url = Unbound
        /\ pc \in {"merge", "except", "done"}
        /\ pc = "done" => outcome.kind = "raise"

C12_Witness ==
    /\ pc = "done"
    /\ N = MaxLen
    /\ audio_results # None
    /\ Undecodable = {2}
    /\ Len(merged) = 1
    /\ e = CouldntDecodeError

\* C13: every outbound call of the pipeline is made with an explicit timeout:
\* each synthesis request posted and each upload_fileobj call names one.
C13_ExplicitTimeouts ==
    /\ \A k \in 1..Len(requests) : "timeout" \in DOMAIN requests[k].call
    /\ \A k \in 1..Len(s3) : "timeout" \in DOMAIN s3[k]

\* C18: the fan-out posts all N requests without waiting for any of them: as
\* long as a request is still to be posted no request has completed or failed,
\* so no request's issue comes after another's completion (the witness is the
\* state with all N requests in flight at once).
C18_FanOutUnordered ==
    (\E i \in Tasks : task[i] = "pending") =>
        /\ order = <<>>
        /\ \A j \in Tasks : task[j] \in {"pending", "inflight"} /\ result[j] = NoResult

C18_Witness ==
    /\ pc = "gather"
    /\ N = MaxLen
    /\ Cardinality({i \in Idx : task[i] = "inflight"}) = N
    /\ order = <<>>

\* C19: the stages run in order: the merge has its input only when all N
\* requests are done (none in flight), an upload is made only with the track
\* exported from the complete merge, and a URL is returned only when this
\* invocation's upload has been stored, and it is that object's URL.
C19_StageOrdering ==
    /\ (audio_results # None \/ merged # <<>> \/ pc \in {"merge", "upload", "return"})
          => \A i \in Idx : task[i] = "done"
    /\ (buffer # None \/ pc \in {"upload", "return"})
          => buffer # None /\ Len(merged) = N /\ buffer.segments = merged
    /\ ThisRun # {} => buffer # None
    /\ pc = "return" => \E k \in ThisRun : s3[k].stored
    /\ (entry = "text2speech" /\ outcome.kind = "return")
          => \E k \in ThisRun :
                /\ s3[k].stored
                /\ outcome.value = [kind |-> "str", value |-> ObjectUrl(s3[k].Bucket, s3[k].Key)]

C19_Witness ==
    /\ pc = "done"
    /\ N = MaxLen
    /\ outcome.kind = "return"
    /\ order = <<2, 1, 0>>
    /\ Len(buffer.segments) = MaxLen

\* C20: a synthesis call writes only its own result slot and only once: in
\* every step of an invocation a slot that changes was empty and belongs to
\* the task that finishes in that step, every other slot keeps its value, and
\* the list handed to the merge is never changed afterwards.
C20_DisjointSlots ==
    [][invocations' = invocations =>
          /\ \A j \in DOMAIN result :
                result'[j] # result[j] =>
                    /\ result[j] = NoResult
                    /\ task[j] = "inflight"
                    /\ task'[j] \in {"done", "failed"}
          /\ Cardinality({j \in DOMAIN result : result'[j] # result[j]}) <= 1
          /\ audio_results # None => audio_results' = audio_results]_vars

C20_Witness ==
    /\ pc = "gather"
    /\ N = MaxLen
    /\ order = <<2, 0>>
    /\ task[1] = "inflight"
    /\ result[1] = NoResult
    /\ result[0] = Synthesize(Utt(0), get_voice(0), TRUE)
    /\ result[2] = Synthesize(Utt(2), get_voice(2), TRUE)

\* C14: process_translation with target language 'en' and the required fields
\* present returns the original script as 'script' and as 'translated_script'
\* with translation_applied False, and makes no call to the translation model.
RequiredPresent == missing_fields(translator.script_data, <<"script", "repo_name", "word_count">>) = <<>>

C14_EnglishSkipsTranslation ==
    (translator.pc = "done" /\ translator.target_language = "en" /\ RequiredPresent) =>
        /\ translator.calls = <<>>
        /\ translator.outcome.kind = "return"
        /\ translator.outcome.value.script = translator.script_data["script"].value
        /\ translator.outcome.value.translated_script = translator.script_data["script"].value
        /\ translator.outcome.value.translation_applied = FALSE

\* C15: GET /api/status/{workflow_id} answers by the workflow's state in
\* Orkes: the audio stream when the workflow is COMPLETED, otherwise the status
\* Orkes reports for it.
C15_StatusByWorkflowState ==
    (gateway.pc = "done" /\ gateway.call.fn = "get_status"
                         /\ gateway.call.workflow_id \in DOMAIN conductor) =>
        /\ gateway.outcome.status_code = 200
        /\ IF conductor[gateway.call.workflow_id] = "COMPLETED"
           THEN gateway.outcome.body = [media_type |-> "audio/mpeg"]
           ELSE gateway.outcome.body = [status |-> conductor[gateway.call.workflow_id]]

\* C16: POST /api/generate with a valid GitHub URL asks Orkes for a token and
\* to start a workflow; the answer is the workflow ID Orkes created, or HTTP
\* 500 and then one of the two requests to Orkes has failed.
C16_GenerateStartsWorkflow ==
    (gateway.pc = "done" /\ gateway.call.fn = "generate_podcast"
                         /\ HttpUrl(gateway.call.github_url)) =>
        /\ gateway.outcome.status_code \in {200, 500}
        /\ gateway.outcome.status_code = 200 =>
              gateway.outcome.body.workflow_id \in DOMAIN conductor
        /\ gateway.outcome.status_code = 500 => gateway.http # <<>>

\* C17: after combine_audio_segments on a non-empty list of segment files the
\* output file holds the audio of every segment, in list order.
RECURSIVE Concat(_, _)
Concat(files, paths) ==
    IF paths = <<>> THEN <<>> ELSE files[Head(paths)] \o Concat(files, Tail(paths))

C17_CombinedHoldsEverySegment ==
    (podcast.pc = "cleanup" /\ podcast.segment_files # <<>>) =>
        disk[podcast_filepath(podcast.podcast_id)] = Concat(disk, podcast.segment_files)

\* C21 (as stated): start_workflow asks for the token first and sends no start
\* request when the token request fails; it returns a non-empty workflow ID
\* or raises RuntimeError.
StartWorkflowCalled == gateway.call.fn = "start_workflow"
TokenFirst ==
    /\ Len(gateway.http) <= 2
    /\ gateway.http # <<>> => gateway.http[1] = token_request
    /\ Len(gateway.http) = 2 =>
          /\ gateway.pc \in {"start", "done"}
          /\ gateway.http[2] = start_request(Token, gateway.call.repo_url, gateway.call.mode)
    /\ gateway.pc = "token" => Len(gateway.http) = 1
NonEmptyIdReturned ==
    gateway.outcome.kind = "return" =>
        /\ Len(gateway.http) = 2
        /\ gateway.outcome.value \in WorkflowIds
        /\ gateway.outcome.value \in DOMAIN conductor

C21_IdOrRuntimeError ==
    (StartWorkflowCalled /\ gateway.pc = "done") =>
        /\ TokenFirst
        /\ NonEmptyIdReturned
        /\ gateway.outcome.kind \in {"return", "raise"}
        /\ gateway.outcome.kind = "raise" => gateway.outcome.exc.type = "RuntimeError"

\* C21 (amended): the same, except that the call raises RuntimeError only for
\* an error status or an empty body; an exception of the transport
\* (ConnectionError) reaches the caller as it is.
C21_IdOrRaise ==
    StartWorkflowCalled =>
        /\ TokenFirst
        /\ NonEmptyIdReturned
        /\ gateway.pc = "done" =>
              /\ gateway.outcome.kind \in {"return", "raise"}
              /\ gateway.outcome.kind = "raise" =>
                    gateway.outcome.exc \in
                        {OrkesError("Failed to authenticate with Orkes"),
                         OrkesError("Failed to start workflow with Orkes"),
                         OrkesError("Invalid response from Orkes: missing workflowId"),
                         ConnectionError}
              /\ (Len(gateway.http) = 1) => gateway.outcome.kind = "raise"

C21_Witness ==
    /\ StartWorkflowCalled
    /\ gateway.pc = "done"
    /\ Len(gateway.http) = 1
    /\ gateway.outcome.kind = "raise"
    /\ gateway.outcome.exc = ConnectionError

\* C22: extract_audio_via_s3 goes on to the synthesis (get_audio_file) only
\* when the fetched status is COMPLETED and the output's 'summary' is a list;
\* for any other status, or a summary that is missing or not a list, it raises
\* RuntimeError, and no synthesis request and no upload is made.
ExtractAnswered ==
    /\ gateway.pc = "done"
    /\ gateway.call.fn = "extract_audio_via_s3"
    /\ "data" \in DOMAIN gateway.call
SummaryIsList == isinstance_list(summary_of(gateway.call.data))

EffectiveScript(script_data) ==
    IF "translated_script" \in DOMAIN script_data
    THEN script_data["translated_script"].value
    ELSE script_data["script"].value
NoSegments(script_data) ==
    /\ missing_fields(script_data, <<"script", "repo_name">>) = <<>>
    /\ parse_dialogue(EffectiveScript(script_data)) = <<>>

C23_NoSegmentsRejected ==
    /\ [](podcast.pc # "idle" /\ NoSegments(podcast.script_data) =>
            /\ podcast.pc = "done"
            /\ podcast.outcome =
                  [kind |-> "raise",
                   exc |-> ValueError(<<"No valid dialogue segments found in script">>)]
            /\ podcast.http = <<>>
            /\ podcast.segment_files = <<>>)
    /\ [][(podcast' # podcast /\ podcast'.pc # "idle" /\ NoSegments(podcast'.script_data))
            => disk' = disk /\ podcast'.podcast_id = podcast.podcast_id]_vars

C23_Witness ==
    /\ podcast.pc = "done"
    /\ NoSegments(podcast.script_data)
    /\ Len(EffectiveScript(podcast.script_data)) = 2
    /\ podcast.outcome.kind = "raise"
    /\ disk = <<>>

\* C24 (as stated): parse_dialogue returns one segment for each line that
\* starts with 'HOST:' or 'EXPERT:' and has non-empty text after the label, in
\* script order, HOST lines with the host voice config and EXPERT lines with
\* the expert one; every other line contributes no segment.
Labels == {"HOST:", "EXPERT:"}
SpeakerOf(label) == IF label = "HOST:" THEN "host" ELSE "expert"
Parsed == podcast.pc # "idle" /\ missing_fields(podcast.script_data, <<"script", "repo_name">>) = <<>>
ParsedScript == EffectiveScript(podcast.script_data)
ParsedSegments == parse_dialogue(ParsedScript)

\* the position in the script of the j-th line of the set Q of positions
Nth(Q, j) == CHOOSE k \in Q : Cardinality({m \in Q : m <= k}) = j

LabelledLines == {k \in 1..Len(ParsedScript) :
                     /\ Len(ParsedScript[k]) >= 2
                     /\ Head(ParsedScript[k]) \in Labels}

C24_SegmentPerLabelledLine ==
    Parsed =>
        /\ Len(ParsedSegments) = Cardinality(LabelledLines)
        /\ \A j \in 1..Len(ParsedSegments) :
              LET line == ParsedScript[Nth(LabelledLines, j)]
              IN  /\ ParsedSegments[j].speaker = SpeakerOf(Head(line))
                  /\ ParsedSegments[j].voice_config = voice_configs[SpeakerOf(Head(line))]

\* C24 (amended): the same with every line taken after its surrounding
\* whitespace is stripped, and the text after the label stripped as well: a
\* line counts when its stripped form starts with a label and the stripped
\* rest is not empty, and that stripped rest is the segment's text.
StrippedLabelledLines ==
    {k \in 1..Len(ParsedScript) :
        LET line == strip(ParsedScript[k])
        IN  /\ line # <<>>
            /\ Head(line) \in Labels
            /\ strip(Tail(line)) # <<>>}

C24_SegmentPerStrippedLine ==
    Parsed =>
        /\ Len(ParsedSegments) = Cardinality(StrippedLabelledLines)
        /\ podcast.segments = ParsedSegments
        /\ \A j \in 1..Len(ParsedSegments) :
              LET line == strip(ParsedScript[Nth(StrippedLabelledLines, j)])
              IN  /\ ParsedSegments[j].speaker = SpeakerOf(Head(line))
                  /\ ParsedSegments[j].text = strip(Tail(line))
                  /\ ParsedSegments[j].voice_config = voice_configs[SpeakerOf(Head(line))]

C24_Witness ==
    /\ Parsed
    /\ podcast.pc = "synthesize"
    /\ ParsedScript = <<<<" ", "EXPERT:", "Hello.", " ">>, <<"HOST:", " ", "Hi.">>>>
    /\ Len(podcast.segments) = 2
    /\ podcast.segments[1].speaker = "expert"

\* The loop has been entered and the script has ended.
LoopTerminated == poller.pc = "done" /\ poller.exit \in {"break", "raise"}
\* Some poll response reported COMPLETED or FAILED.
ReportedEnd == \E i \in 1..Len(poller.polls) : poller.polls[i] \in {"COMPLETED", "FAILED"}

\* C25 as stated: the polling loop has terminated if and only if some poll
\* response reported the status COMPLETED or FAILED.
C25_TerminatesIffReported == LoopTerminated <=> ReportedEnd

\* C25, amended: the loop is left by `break` only after a response reported
\* COMPLETED or FAILED, such a report always ends the loop, every response
\* reporting another status (the terminal TERMINATED and TIMED_OUT included) is
\* followed by another poll, and a loop that ended without such a report was
\* ended by an exception no code catches.
C25_BreakIffReported ==
    /\ [](/\ poller.exit = "break" => ReportedEnd
          /\ ReportedEnd => LoopTerminated
          /\ (LoopTerminated /\ ~ReportedEnd) =>
                (poller.exit = "raise" /\ poller.e # None))
    /\ [][(Len(poller'.polls) > Len(poller.polls)
           /\ poller'.polls[Len(poller'.polls)] \notin {"COMPLETED", "FAILED"})
          => poller'.pc = "loop"]_vars

\* Two polls in a row were answered TERMINATED and the loop is at its head again.
C25_Witness ==
    /\ poller.pc = "loop"
    /\ Len(poller.polls) >= 2
    /\ poller.polls[Len(poller.polls)] = "TERMINATED"
    /\ poller.polls[Len(poller.polls) - 1] = "TERMINATED"

\* An exception was raised in the run's try block.
Raised == cli.e # None
EnvelopeMatchesRun ==
    /\ Len(cli.written) = 1
    /\ LET envelope == cli.written[1]
       IN  /\ envelope.status \in {"success", "error"}
           /\ envelope.status = "success" =>
                 (envelope.data # None /\ envelope.error = None /\ ~Raised)
           /\ envelope.status = "error" => (envelope.data = None /\ envelope.error # None)
           /\ Raised => envelope.status = "error"

\* C26: a run of a worker script's main() that has ended has written exactly
\* one response envelope: a success envelope (status 'success', data set, error
\* None) when nothing raised, an error envelope (status 'error', data None, error
\* set) when a step raised.
C26_OneEnvelopePerRun == cli.pc = "done" => EnvelopeMatchesRun

\* Request r was answered with an audio_url after its own audio had been saved.
AudioPromised(r) ==
    /\ frontend.request[r].saved
    /\ frontend.request[r].pc \in {"answered", "served"}
    /\ frontend.request[r].answer.status_code = 200

\* Request r was handled at the same time as a request carrying another text.
ConcurrentWithOtherText(r) ==
    \E q \in frontend.request[r].overlapped :
        frontend.request[q].text # frontend.request[r].text

\* C27: with concurrent requests carrying different texts, the audio at the audio_url a request was answered with is the synthesis
\* of that request's own text, from the answer until it is served, whatever
\* other requests do meanwhile.
C27_OwnAudioAtUrl ==
    \A r \in 1..MaxRequests :
        (AudioPromised(r) /\ ConcurrentWithOtherText(r)) =>
            IF frontend.request[r].pc = "served"
            THEN frontend.request[r].served = speech(frontend.request[r].text)
            ELSE frontend.file = speech(frontend.request[r].text)

====
